---- MODULE Spec2Model ----
(***************************************************************************)
(* Model of deluge/component.py: the Component base class and the          *)
(* process-wide ComponentRegistry (register, deregister, get, start, stop, *)
(* pause, resume, update, shutdown).                                       *)
(*                                                                         *)
(* The program is single threaded and every registry operation runs to     *)
(* completion, user hooks included, so each operation is one action.  An   *)
(* operation is evaluated on a "world" record w that carries the two       *)
(* registry dictionaries, the exception in flight (status) and a log of    *)
(* the hook calls and transitions the operation performed, in order.       *)
(* The twisted LoopingCall is modelled by what the component does to it:   *)
(* created-and-started in _start, stopped in _stop and _pause.  The ticks  *)
(* the reactor delivers to a running LoopingCall are not modelled.         *)
(*                                                                         *)
(* Spec draws the constructed components from plain classes; SpecStart,    *)
(* SpecFaults, SpecReentrant and SpecUpdate run the same operations on     *)
(* dependency graphs, on classes whose hooks raise and on classes whose    *)
(* hooks call back into the registry.                                      *)
(***************************************************************************)
EXTENDS Naturals, Sequences, FiniteSets, TLC

VARIABLES components, depend, lastOp, log, status, snaps, removed

vars == <<components, depend, lastOp, log, status, snaps, removed>>

\* ------------------------------------------------------------------ bounds

\* Longest dependency list a component is declared with.
MaxDepLen == 2

\* Depth of nested calls after which the interpreter gives up
\* ("maximum recursion depth exceeded"); larger than any finite nesting the
\* model can produce.
MaxDepth == 8

\* --------------------------------------------------------------- constants

Names == {"A", "B", "C"}

COMPONENT_STATE == <<"Stopped", "Started", "Paused">>

\* depend=None of Component.__init__ and register (a list that is no list
\* of names)
None == <<"None">>

\* ------------------------------------------------------------------- hooks
\* What a user-supplied hook of a component class does when it is called.
\*   ok      returns normally
\*   raise   raises an exception
\*   absent  the class defines no such method (update only)
\*   dereg / stop / pause   calls component.deregister / stop / pause on
\*                          another component (target) and returns

NoTarget == "-"

Hook(kind, target) == [kind |-> kind, target |-> target]

Ok == Hook("ok", NoTarget)

Raises == Hook("raise", NoTarget)

Absent == Hook("absent", NoTarget)

\* A component class: the four hooks a subclass of Component may override.
Class(startHook, stopHook, updateHook, shutdownHook) ==
    [start |-> startHook, stop |-> stopHook, update |-> updateHook,
     shutdown |-> shutdownHook]

\* -------------------------------------------------------- Component object

\* Component.__init__ after register(): the fields of a fresh object.
Component__init__(cls) ==
    [state |-> COMPONENT_STATE[1], timer |-> "None", running |-> 0,
     start |-> cls.start, stop |-> cls.stop, update |-> cls.update,
     shutdown |-> cls.shutdown]

get_state(c) == c.state

\* hasattr(self, "update")
HasUpdate(c) == c.update.kind # "absent"

\* self._timer.stop() inside try/except: stops a running LoopingCall; with
\* no timer (None) or a timer that is not running the exception is swallowed.
TimerStop(c) ==
    IF c.timer = "running"
    THEN [c EXCEPT !.timer = "stopped", !.running = @ - 1]
    ELSE c

\* A new LoopingCall replaces the handle; one that was still running keeps
\* running unreferenced, hence the count.
_start(c) ==
    IF HasUpdate(c)
    THEN [c EXCEPT !.state = COMPONENT_STATE[2], !.timer = "running",
                   !.running = @ + 1]
    ELSE [c EXCEPT !.state = COMPONENT_STATE[2]]

_stop(c) == TimerStop([c EXCEPT !.state = COMPONENT_STATE[1]])

\* Mutant of _pause: the timer is left running.
_pause_keeps_timer(c) == [c EXCEPT !.state = COMPONENT_STATE[3]]

_pause(c) == TimerStop([c EXCEPT !.state = COMPONENT_STATE[3]])

\* Mutant of _resume: the state is set, the timer is not armed again.
_resume_state_only(c) == [c EXCEPT !.state = COMPONENT_STATE[2]]

_resume(c) == _start(c)

\* ------------------------------------------------------------------ worlds

World ==
    [components |-> components, depend |-> depend, log |-> <<>>,
     status |-> "ok", snaps |-> <<>>, removed |-> {}]

Raise(w, exc) == [w EXCEPT !.status = exc]

\* One entry of the log: what was called, on which name, the state the
\* record was in when it was called (st) and the state the call left it in
\* (to; a hook call is logged before the hook body runs, with to = st).
Event(ev, name, st, to) == [ev |-> ev, name |-> name, st |-> st, to |-> to]

Registered(w, name) == name \in DOMAIN w.components

StateOf(w, name) ==
    IF Registered(w, name) THEN get_state(w.components[name])
    ELSE "unregistered"

Emit(w, ev, name) ==
    [w EXCEPT !.log =
        Append(@, Event(ev, name, StateOf(w, name), StateOf(w, name)))]

\* self.components[name].<method>() for the underscore methods
Transition(w, ev, name) ==
    LET c == w.components[name]
        c2 == CASE ev = "_start" -> _start(c)
                [] ev = "_stop" -> _stop(c)
                [] ev = "_pause" -> _pause(c)
                [] ev = "_resume" -> _resume(c)
    IN [w EXCEPT !.components[name] = c2,
                 !.log = Append(@, Event(ev, name, c.state, c2.state))]

\* ---------------------------------------------------------------- registry

RECURSIVE start_component(_, _, _)
RECURSIVE StartDepends(_, _, _, _)
RECURSIVE stop_component(_, _, _)
RECURSIVE deregister(_, _, _)
RECURSIVE pause_component(_, _, _)
RECURSIVE RunHook(_, _, _)

\* self.components[name].<hook>(): the call is logged, then the hook body
\* runs one frame deeper.
CallHook(w, which, name, d) ==
    LET c == w.components[name]
        h == CASE which = "start" -> c.start
               [] which = "stop" -> c.stop
               [] which = "update" -> c.update
               [] which = "shutdown" -> c.shutdown
    IN IF h.kind = "absent"
       THEN Raise(w, "AttributeError")
       ELSE RunHook(Emit(w, which, name), h, d + 1)

\* The body of a user hook.
RunHook(w, h, d) ==
    CASE h.kind = "ok" -> w
      [] h.kind = "raise" -> Raise(w, "HookFailure")
      [] h.kind = "dereg" -> deregister(w, h.target, d)
      [] h.kind = "stop" -> stop_component(w, h.target, d)
      [] h.kind = "pause" -> pause_component(w, h.target, d)

\* Mutant of StartDepends: the dependencies are not started.
StartDepends_skipped(w, deps, i, d) == w

\* for depend in self.depend[name]: self.start_component(depend)
StartDepends(w, deps, i, d) ==
    IF i > Len(deps) \/ w.status # "ok"
    THEN w
    ELSE StartDepends(start_component(w, deps[i], d + 1), deps, i + 1, d)

\* Mutant of start_component: the component is started before its
\* dependencies are.
start_component_before_depends(w, name, d) ==
    IF d > MaxDepth THEN Raise(w, "RecursionError")
    ELSE
    LET w1 == IF ~Registered(w, name) THEN Raise(w, "KeyError")
              ELSE IF get_state(w.components[name]) = COMPONENT_STATE[1]
              THEN LET w2 == CallHook(w, "start", name, d)
                   IN  IF w2.status # "ok" THEN w2
                       ELSE Transition(w2, "_start", name)
              ELSE w
    IN  IF w1.status = "ok" /\ name \in DOMAIN w1.depend
        THEN StartDepends(w1, w1.depend[name], 1, d)
        ELSE w1

\* Mutant of start_component: a component that is not Stopped is left
\* alone before its dependencies are looked at.
start_component_state_first(w, name, d) ==
    IF Registered(w, name)
       /\ get_state(w.components[name]) # COMPONENT_STATE[1]
    THEN w
    ELSE start_component_before_depends(w, name, d)

start_component(w, name, d) ==
    IF d > MaxDepth THEN Raise(w, "RecursionError")
    ELSE
    LET w1 == IF name \in DOMAIN w.depend
              THEN StartDepends(w, w.depend[name], 1, d)
              ELSE w
    IN  IF w1.status # "ok" THEN w1
        ELSE IF ~Registered(w1, name) THEN Raise(w1, "KeyError")
        ELSE IF get_state(w1.components[name]) = COMPONENT_STATE[1]
        THEN LET w2 == CallHook(w1, "start", name, d)
             IN  IF w2.status # "ok" THEN w2
                 ELSE IF ~Registered(w2, name) THEN Raise(w2, "KeyError")
                 ELSE Transition(w2, "_start", name)
        ELSE w1

\* Mutant of stop_component: the state is not checked.
stop_component_unguarded(w, component, d) ==
    IF ~Registered(w, component) THEN Raise(w, "KeyError")
    ELSE LET w1 == CallHook(w, "stop", component, d)
         IN  IF w1.status # "ok" THEN w1
             ELSE Transition(w1, "_stop", component)

stop_component(w, component, d) ==
    IF d > MaxDepth THEN Raise(w, "RecursionError")
    ELSE IF ~Registered(w, component) THEN Raise(w, "KeyError")
    ELSE IF get_state(w.components[component]) # COMPONENT_STATE[1]
    THEN LET w1 == CallHook(w, "stop", component, d)
         IN  IF w1.status # "ok" THEN w1
             ELSE IF ~Registered(w1, component) THEN Raise(w1, "KeyError")
             ELSE Transition(w1, "_stop", component)
    ELSE w

\* Mutant of pause_component: only Paused is excluded, so a Stopped
\* component is paused.
pause_component_from_stopped(w, component, d) ==
    IF d > MaxDepth THEN Raise(w, "RecursionError")
    ELSE IF ~Registered(w, component) THEN Raise(w, "KeyError")
    ELSE IF get_state(w.components[component]) # COMPONENT_STATE[3]
    THEN Transition(w, "_pause", component)
    ELSE w

pause_component(w, component, d) ==
    IF d > MaxDepth THEN Raise(w, "RecursionError")
    ELSE IF ~Registered(w, component) THEN Raise(w, "KeyError")
    ELSE IF get_state(w.components[component])
                \notin {COMPONENT_STATE[3], COMPONENT_STATE[1]}
    THEN Transition(w, "_pause", component)
    ELSE w

\* Mutant of resume_component: the state is not checked.
resume_component_unguarded(w, component, d) ==
    IF ~Registered(w, component) THEN Raise(w, "KeyError")
    ELSE Transition(w, "_resume", component)

resume_component(w, component, d) ==
    IF ~Registered(w, component) THEN Raise(w, "KeyError")
    ELSE IF get_state(w.components[component]) = COMPONENT_STATE[3]
    THEN Transition(w, "_resume", component)
    ELSE w

\* del self.components[name]
DelComponent(w, name) ==
    [w EXCEPT !.components =
                  [n \in DOMAIN w.components \ {name} |-> w.components[n]],
              !.removed = @ \cup {w.components[name]}]

deregister(w, name, d) ==
    IF d > MaxDepth THEN Raise(w, "RecursionError")
    ELSE IF Registered(w, name)
    THEN LET w1 == stop_component(w, name, d + 1)
         IN  IF w1.status # "ok" THEN w1
             ELSE IF ~Registered(w1, name) THEN Raise(w1, "KeyError")
             ELSE DelComponent(w1, name)
    ELSE w

\* self.components[name] = obj; if depend != None: self.depend[name] = depend
register(w, name, obj, dep) ==
    LET old == IF Registered(w, name) THEN {w.components[name]} ELSE {}
        comps == [n \in DOMAIN w.components \cup {name} |->
                     IF n = name THEN obj ELSE w.components[n]]
        deps == IF dep # None
                THEN [n \in DOMAIN w.depend \cup {name} |->
                         IF n = name THEN dep ELSE w.depend[n]]
                ELSE w.depend
    IN [w EXCEPT !.components = comps, !.depend = deps,
                 !.removed = @ \cup old]

\* Mutant of get: a missing name is answered without an error.
get_default(w, name) == w

\* return self.components[name]
get(w, name) ==
    IF Registered(w, name) THEN w ELSE Raise(w, "KeyError")

\* -------------------------------------------------------------- bulk calls
\* self.components.keys() builds a list; the order of a dict's keys is
\* arbitrary, so every bulk call takes the order as an input.

Orders ==
    {o \in [1..Cardinality(Names) -> Names] :
        \A i, j \in 1..Cardinality(Names) : i # j => o[i] # o[j]}

keys(w, order) ==
    LET In(n) == n \in DOMAIN w.components IN SelectSeq(order, In)

Snap(w, ks) == [w EXCEPT !.snaps = Append(@, ks)]

RECURSIVE StartLoop(_, _, _)
RECURSIVE StopLoop(_, _, _)
RECURSIVE PauseLoop(_, _, _)
RECURSIVE ResumeLoop(_, _, _)
RECURSIVE UpdateLoop(_, _, _)
RECURSIVE ShutdownLoop(_, _, _)

\* Mutant of StartLoop: the loop goes on after a failed start_component.
StartLoop_goes_on(w, ks, i) ==
    IF i > Len(ks) THEN w
    ELSE LET w1 == start_component([w EXCEPT !.status = "ok"], ks[i], 1)
         IN StartLoop([w1 EXCEPT !.status =
                                   IF w.status # "ok" THEN w.status ELSE @],
                      ks, i + 1)

StartLoop(w, ks, i) ==
    IF i > Len(ks) \/ w.status # "ok" THEN w
    ELSE StartLoop(start_component(w, ks[i], 1), ks, i + 1)

start(w, order) ==
    LET ks == keys(w, order) IN StartLoop(Snap(w, ks), ks, 1)

\* Mutant of StopLoop: the name is not checked against the dictionary.
StopLoop_no_check(w, ks, i) ==
    IF i > Len(ks) \/ w.status # "ok" THEN w
    ELSE StopLoop(stop_component(w, ks[i], 1), ks, i + 1)

\* if component in self.components: self.stop_component(component)
StopLoop(w, ks, i) ==
    IF i > Len(ks) \/ w.status # "ok" THEN w
    ELSE StopLoop(IF Registered(w, ks[i])
                  THEN stop_component(w, ks[i], 1) ELSE w, ks, i + 1)

stop(w, order) ==
    LET ks == keys(w, order) IN StopLoop(Snap(w, ks), ks, 1)

PauseLoop(w, ks, i) ==
    IF i > Len(ks) \/ w.status # "ok" THEN w
    ELSE PauseLoop(pause_component(w, ks[i], 1), ks, i + 1)

pause(w, order) ==
    LET ks == keys(w, order) IN PauseLoop(Snap(w, ks), ks, 1)

ResumeLoop(w, ks, i) ==
    IF i > Len(ks) \/ w.status # "ok" THEN w
    ELSE ResumeLoop(resume_component(w, ks[i], 1), ks, i + 1)

resume(w, order) ==
    LET ks == keys(w, order) IN ResumeLoop(Snap(w, ks), ks, 1)

\* Mutant of UpdateLoop: every component that is not Stopped is updated.
UpdateLoop_not_stopped(w, ks, i) ==
    IF i > Len(ks) \/ w.status # "ok" THEN w
    ELSE UpdateLoop(
            IF ~Registered(w, ks[i]) THEN Raise(w, "KeyError")
            ELSE IF get_state(w.components[ks[i]]) # COMPONENT_STATE[1]
            THEN CallHook(w, "update", ks[i], 1)
            ELSE w, ks, i + 1)

\* if self.components[component].get_state() == Started:
\*     self.components[component].update()
\* Mutant of UpdateLoop: a name that left the dictionary is skipped.
UpdateLoop_skips_missing(w, ks, i) ==
    IF i > Len(ks) \/ w.status # "ok" THEN w
    ELSE UpdateLoop(
            IF ~Registered(w, ks[i]) THEN w
            ELSE IF get_state(w.components[ks[i]]) = COMPONENT_STATE[2]
            THEN CallHook(w, "update", ks[i], 1)
            ELSE w, ks, i + 1)

UpdateLoop(w, ks, i) ==
    IF i > Len(ks) \/ w.status # "ok" THEN w
    ELSE UpdateLoop(
            IF ~Registered(w, ks[i]) THEN Raise(w, "KeyError")
            ELSE IF get_state(w.components[ks[i]]) = COMPONENT_STATE[2]
            THEN CallHook(w, "update", ks[i], 1)
            ELSE w, ks, i + 1)

update(w, order) ==
    LET ks == keys(w, order) IN UpdateLoop(Snap(w, ks), ks, 1)

\* Mutant of ShutdownLoop: no try/except around the shutdown hook.
ShutdownLoop_no_try(w, ks, i) ==
    IF i > Len(ks) \/ w.status # "ok" THEN w
    ELSE ShutdownLoop(IF ~Registered(w, ks[i]) THEN Raise(w, "KeyError")
                      ELSE CallHook(w, "shutdown", ks[i], 1), ks, i + 1)

\* try: self.components[component].shutdown()
\* except Exception, e: log.exception(e)
ShutdownLoop(w, ks, i) ==
    IF i > Len(ks) THEN w
    ELSE LET w1 == IF ~Registered(w, ks[i]) THEN Raise(w, "KeyError")
                   ELSE CallHook(w, "shutdown", ks[i], 1)
             w2 == IF w1.status # "ok"
                   THEN [Emit(w1, "log.exception", ks[i])
                            EXCEPT !.status = "ok"]
                   ELSE w1
         IN ShutdownLoop(w2, ks, i + 1)

\* Mutant of shutdown: the components are not stopped first.
shutdown_without_stop(w, order) ==
    LET ks == keys(w, order) IN ShutdownLoop(Snap(Snap(w, ks), ks), ks, 1)

shutdown(w, order) ==
    LET w1 == stop(w, order)
    IN  IF w1.status # "ok" THEN w1
        ELSE LET ks == keys(w1, order)
             IN ShutdownLoop(Snap(w1, ks), ks, 1)

\* ----------------------------------------------------------------- actions

NoName == "-"

Commit(w, op, name) ==
    /\ components' = w.components
    /\ depend' = w.depend
    /\ log' = w.log
    /\ status' = w.status
    /\ snaps' = w.snaps
    /\ removed' = w.removed
    /\ lastOp' = [op |-> op, name |-> name]

\* Component.__init__(name, interval, depend) of an instance of class cls
Construct(name, cls, dep) ==
    /\ name \in Names
    /\ Commit(register(World, name, Component__init__(cls), dep),
              "register", name)

Deregister(name) ==
    /\ name \in Names
    /\ Commit(deregister(World, name, 0), "deregister", name)

Get(name) ==
    /\ name \in Names
    /\ Commit(get(World, name), "get", name)

Start(order) ==
    /\ order \in Orders
    /\ Commit(start(World, order), "start", NoName)

StartComponent(name) ==
    /\ name \in Names
    /\ Commit(start_component(World, name, 0), "start_component", name)

Stop(order) ==
    /\ order \in Orders
    /\ Commit(stop(World, order), "stop", NoName)

StopComponent(name) ==
    /\ name \in Names
    /\ Commit(stop_component(World, name, 0), "stop_component", name)

Pause(order) ==
    /\ order \in Orders
    /\ Commit(pause(World, order), "pause", NoName)

PauseComponent(name) ==
    /\ name \in Names
    /\ Commit(pause_component(World, name, 0), "pause_component", name)

Resume(order) ==
    /\ order \in Orders
    /\ Commit(resume(World, order), "resume", NoName)

ResumeComponent(name) ==
    /\ name \in Names
    /\ Commit(resume_component(World, name, 0), "resume_component", name)

Update(order) ==
    /\ order \in Orders
    /\ Commit(update(World, order), "update", NoName)

Shutdown(order) ==
    /\ order \in Orders
    /\ Commit(shutdown(World, order), "shutdown", NoName)

\* ComponentRegistry.__init__
Init ==
    /\ components = <<>>
    /\ depend = <<>>
    /\ lastOp = [op |-> "init", name |-> NoName]
    /\ log = <<>>
    /\ status = "ok"
    /\ snaps = <<>>
    /\ removed = {}

\* A construction: the name, the class and the depend argument.
Reg(name, cls, dep) == [name |-> name, cls |-> cls, dep |-> dep]

\* Classes without hooks of their own, with and without an update method.
Plain == Class(Ok, Ok, Absent, Ok)

Updating == Class(Ok, Ok, Ok, Ok)

\* The components the program constructs: every name with and without an
\* update method; A may be declared with or without a dependency list.
CoreRegs ==
    {Reg(n, cls, None) : n \in {"A", "B"}, cls \in {Plain, Updating}}
        \cup {Reg("A", Updating, <<"B">>), Reg("C", Plain, None)}

Next ==
    \/ \E r \in CoreRegs : Construct(r.name, r.cls, r.dep)
    \/ \E name \in Names : Deregister(name)
    \/ \E name \in Names : Get(name)
    \/ \E order \in Orders : Start(order)
    \/ \E name \in Names : StartComponent(name)
    \/ \E order \in Orders : Stop(order)
    \/ \E name \in Names : StopComponent(name)
    \/ \E order \in Orders : Pause(order)
    \/ \E name \in Names : PauseComponent(name)
    \/ \E order \in Orders : Resume(order)
    \/ \E name \in Names : ResumeComponent(name)
    \/ \E order \in Orders : Update(order)
    \/ \E order \in Orders : Shutdown(order)

Spec == Init /\ [][Next]_vars

\* ---- dependency-ordered start -------------------------------------------
\* Every acyclic dependency graph over the names, up to renaming: a name
\* may list only names after it.
After(name) ==
    CASE name = "A" -> {"B", "C"}
      [] name = "B" -> {"C"}
      [] name = "C" -> {}

\* depend arguments: None or a list of at most MaxDepLen names
DepLists(name) == UNION {[1..k -> After(name)] : k \in 0..MaxDepLen}

RegsOf(name, cls) == {Reg(name, cls, dep) : dep \in {None} \cup DepLists(name)}

StartRegs == UNION {RegsOf(n, Plain) : n \in Names}

NextStart ==
    \/ \E r \in StartRegs : Construct(r.name, r.cls, r.dep)
    \/ \E order \in Orders : Start(order)
    \/ \E name \in Names : StartComponent(name)
    \/ \E name \in Names : StopComponent(name)
    \/ \E name \in Names : PauseComponent(name)

SpecStart == Init /\ [][NextStart]_vars

\* ---- raising hooks ------------------------------------------------------
\* Classes whose start, stop or shutdown hook raises.
FaultyStart == Class(Raises, Ok, Absent, Ok)

FaultyStop == Class(Ok, Raises, Absent, Ok)

FaultyShutdown == Class(Ok, Ok, Absent, Raises)

\* A may raise in any hook and may declare B as its dependency; B may raise
\* in stop or shutdown; C may raise in shutdown.
FaultRegs ==
    {Reg("A", cls, None) :
        cls \in {Plain, FaultyStart, FaultyStop, FaultyShutdown}}
    \cup {Reg("A", FaultyStart, <<"B">>)}
    \cup {Reg("B", cls, None) : cls \in {Plain, FaultyStop, FaultyShutdown}}
    \cup {Reg("C", cls, None) : cls \in {Plain, FaultyShutdown}}

NextFaults ==
    \/ \E r \in FaultRegs : Construct(r.name, r.cls, r.dep)
    \/ \E order \in Orders : Start(order)
    \/ \E name \in Names : StartComponent(name)
    \/ \E order \in Orders : Stop(order)
    \/ \E name \in Names : StopComponent(name)
    \/ \E name \in Names : PauseComponent(name)
    \/ \E order \in Orders : Shutdown(order)

SpecFaults == Init /\ [][NextFaults]_vars

\* ---- hooks that call back into the registry ------------------------------
\* A class whose stop hook deregisters another component.
StopDeregisters(target) == Class(Ok, Hook("dereg", target), Absent, Ok)

\* The stop hook of A may deregister B or C, that of B may deregister C and
\* that of C may deregister A (a stop hook is then called from inside
\* another, and a ring of them never returns).
ReentrantRegs ==
    {Reg(n, Plain, None) : n \in Names}
    \cup {Reg("A", StopDeregisters(t), None) : t \in {"B", "C"}}
    \cup {Reg("B", StopDeregisters("C"), None)}
    \cup {Reg("C", StopDeregisters("A"), None)}

NextReentrant ==
    \/ \E r \in ReentrantRegs : Construct(r.name, r.cls, r.dep)
    \/ \E name \in Names : Deregister(name)
    \/ \E order \in Orders : Start(order)
    \/ \E order \in Orders : Stop(order)
    \/ \E name \in Names : StopComponent(name)
    \/ \E name \in Names : PauseComponent(name)
    \/ \E order \in Orders : Shutdown(order)

SpecReentrant == Init /\ [][NextReentrant]_vars

\* Classes whose update hook pauses, stops or deregisters another component.
UpdatePauses(target) == Class(Ok, Ok, Hook("pause", target), Ok)

UpdateStops(target) == Class(Ok, Ok, Hook("stop", target), Ok)

UpdateDeregisters(target) == Class(Ok, Ok, Hook("dereg", target), Ok)

\* The update hook of A may act on B; B and C have a plain update method or
\* none.
UpdateRegs ==
    {Reg(n, cls, None) : n \in {"B", "C"}, cls \in {Plain, Updating}}
    \cup {Reg("A", cls, None) :
            cls \in {Updating, UpdatePauses("B"), UpdateStops("B"),
                     UpdateDeregisters("B")}}

NextUpdate ==
    \/ \E r \in UpdateRegs : Construct(r.name, r.cls, r.dep)
    \/ \E order \in Orders : Start(order)
    \/ \E name \in Names : StopComponent(name)
    \/ \E name \in Names : PauseComponent(name)
    \/ \E name \in Names : ResumeComponent(name)
    \/ \E order \in Orders : Update(order)

SpecUpdate == Init /\ [][NextUpdate]_vars

\* ---- shutdown -----------------------------------------------------------
\* Update-capable components, one whose stop hook deregisters B, one whose
\* stop hook raises and one whose shutdown hook raises.
ShutdownRegs ==
    {Reg(n, Updating, None) : n \in Names}
    \cup {Reg("A", StopDeregisters("B"), None), Reg("B", FaultyStop, None),
          Reg("C", FaultyShutdown, None)}

NextShutdown ==
    \/ \E r \in ShutdownRegs : Construct(r.name, r.cls, r.dep)
    \/ \E order \in Orders : Start(order)
    \/ \E name \in Names : PauseComponent(name)
    \/ \E order \in Orders : Shutdown(order)

SpecShutdown == Init /\ [][NextShutdown]_vars

\* ---- raising start and stop hooks on update-capable components ----------
RaisingStart == Class(Raises, Ok, Ok, Ok)

RaisingStop == Class(Ok, Raises, Ok, Ok)

\* A's start hook may raise, with or without B as its dependency; B's start
\* or stop hook may raise while A depends on it; C's stop hook may raise.
RaiseRegs ==
    {Reg(n, Updating, None) : n \in Names}
    \cup {Reg("A", cls, dep) : cls \in {Updating, RaisingStart},
                               dep \in {None, <<"B">>}}
    \cup {Reg("B", cls, None) : cls \in {RaisingStart, RaisingStop}}
    \cup {Reg("C", RaisingStop, None)}

NextRaise ==
    \/ \E r \in RaiseRegs : Construct(r.name, r.cls, r.dep)
    \/ \E order \in Orders : Start(order)
    \/ \E name \in Names : StartComponent(name)
    \/ \E order \in Orders : Stop(order)
    \/ \E name \in Names : StopComponent(name)
    \/ \E name \in Names : PauseComponent(name)

SpecRaise == Init /\ [][NextRaise]_vars

\* ---- dependency lists with cycles ---------------------------------------
\* A may declare any list of at most MaxDepLen names, itself included; B
\* may declare A, B or C; C may declare A.
CycleLists == UNION {[1..k -> Names] : k \in 0..MaxDepLen}

CycleRegs ==
    {Reg("A", Plain, dep) : dep \in {None} \cup CycleLists}
    \cup {Reg("B", Plain, dep) : dep \in {None, <<"A">>, <<"B">>, <<"C">>}}
    \cup {Reg("C", Plain, dep) : dep \in {None, <<"A">>}}

NextCycle ==
    \/ \E r \in CycleRegs : Construct(r.name, r.cls, r.dep)
    \/ \E order \in Orders : Start(order)
    \/ \E name \in Names : StartComponent(name)
    \/ \E name \in Names : StopComponent(name)

SpecCycle == Init /\ [][NextCycle]_vars

\* ================================================================== claims

Stopped == COMPONENT_STATE[1]

Started == COMPONENT_STATE[2]

Paused == COMPONENT_STATE[3]

TransitionEvents == {"_start", "_stop", "_pause", "_resume"}

\* The positions of a log where ev was called on name.
PositionsIn(lg, ev, name) ==
    {i \in 1..Len(lg) : lg[i].ev = ev /\ lg[i].name = name}

Positions(ev, name) == PositionsIn(log, ev, name)

Range(seq) == {seq[i] : i \in 1..Len(seq)}

\* The names a name declares as dependencies.
Declared(name) == IF name \in DOMAIN depend THEN Range(depend[name]) ELSE {}

RECURSIVE Closure(_, _)
\* S and everything reachable from S through declared dependencies.
Closure(S, k) ==
    IF k = 0 THEN S
    ELSE Closure(S \cup UNION {Declared(n) : n \in S}, k - 1)

Reach(S) == Closure(S, Cardinality(Names))

Acyclic == \A n \in Names : n \notin Reach(Declared(n))

\* ---- C1 ----------------------------------------------------------------
\* What C1 promises of a log for the set R of names to start: each name of
\* R has exactly one start hook call and exactly one _start, the hook right
\* before the _start, both after the _start of each declared dependency;
\* nothing else is logged and every name of R ends Started.
StartedInOrder(R, lg, comps, deps) ==
    /\ Len(lg) = 2 * Cardinality(R)
    /\ \A n \in R :
          /\ Cardinality(PositionsIn(lg, "start", n)) = 1
          /\ Cardinality(PositionsIn(lg, "_start", n)) = 1
          /\ \A i \in PositionsIn(lg, "start", n) :
                /\ lg[i + 1] = Event("_start", n, Stopped, Started)
                /\ \A m \in (IF n \in DOMAIN deps THEN Range(deps[n]) ELSE {}) :
                      \A j \in PositionsIn(lg, "_start", m) : j < i
          /\ comps[n].state = Started

\* The names start_component(name) or start() is asked to start.
StartTargets(op, name) ==
    IF op = "start" THEN Reach(DOMAIN components) ELSE Reach({name})

\* C1: when the declared dependencies are acyclic and every component the
\* call reaches is registered and Stopped, start_component(name), and
\* start() for every key order, start each reached component exactly once,
\* each after all of its declared dependencies, and return normally.
C1_DependenciesStartFirst ==
    [][(/\ lastOp'.op \in {"start", "start_component"}
        /\ Acyclic
        /\ \A n \in StartTargets(lastOp'.op, lastOp'.name) :
              /\ n \in DOMAIN components
              /\ components[n].state = Stopped
              /\ components[n].start.kind = "ok")
       => /\ status' = "ok"
          /\ depend' = depend
          /\ StartedInOrder(StartTargets(lastOp'.op, lastOp'.name), log',
                            components', depend)]_vars

\* start_component("A") has just started the chain A -> B -> C.
C1_Witness ==
    /\ lastOp = [op |-> "start_component", name |-> "A"]
    /\ "A" \in DOMAIN depend /\ depend["A"] = <<"B">>
    /\ "B" \in DOMAIN depend /\ depend["B"] = <<"C">>
    /\ log = <<Event("start", "C", Stopped, Stopped),
               Event("_start", "C", Stopped, Started),
               Event("start", "B", Stopped, Stopped),
               Event("_start", "B", Stopped, Started),
               Event("start", "A", Stopped, Stopped),
               Event("_start", "A", Stopped, Started)>>

\* ---- C2 ----------------------------------------------------------------
\* C2: when shutdown() reaches its hook phase (its second key list), the
\* shutdown hook of every component registered at that point is called
\* exactly once, whichever of them raise, and shutdown() returns normally.
C2_ShutdownHooksIsolated ==
    (lastOp.op = "shutdown" /\ Len(snaps) = 2)
        => /\ status = "ok"
           /\ Range(snaps[2]) = DOMAIN components
           /\ \A n \in Range(snaps[2]) :
                 Cardinality(Positions("shutdown", n)) = 1

\* A shutdown hook raised, was logged, and a later component's shutdown
\* hook was still called.
C2_Witness ==
    /\ lastOp.op = "shutdown"
    /\ status = "ok"
    /\ \E i, j \in 1..Len(log) :
          /\ i < j
          /\ log[i].ev = "log.exception"
          /\ log[j].ev = "shutdown"
          /\ log[j].name # log[i].name
          /\ components[log[j].name].shutdown.kind = "ok"

\* ---- C3 ----------------------------------------------------------------
\* C3 as claimed: after shutdown(), whichever hook of another component
\* raised, the shutdown hook of every registered component whose own hooks
\* do not raise has been called.
C3_ShutdownReachesEveryComponent ==
    lastOp.op = "shutdown"
        => \A n \in DOMAIN components :
              (components[n].stop.kind = "ok"
                    /\ components[n].shutdown.kind = "ok")
                 => Positions("shutdown", n) # {}

\* ---- C4 ----------------------------------------------------------------
\* The component whose stop hook the stop hook of name runs in turn: the
\* target of a deregistering stop hook, when both are registered and not
\* Stopped.
Active(n) == n \in DOMAIN components /\ components[n].state # Stopped

NestedStop(n) ==
    IF /\ Active(n)
       /\ components[n].stop.kind = "dereg"
       /\ Active(components[n].stop.target)
    THEN {components[n].stop.target} ELSE {}

RECURSIVE NestedClosure(_, _)
NestedClosure(S, k) ==
    IF k = 0 THEN S
    ELSE NestedClosure(S \cup UNION {NestedStop(n) : n \in S}, k - 1)

\* Stop hooks that deregister each other in a ring recurse without end.
StopHooksReturn ==
    \A n \in Names :
        /\ n \in DOMAIN components => components[n].stop.kind # "raise"
        /\ n \notin NestedClosure(NestedStop(n), Cardinality(Names))

\* C4: stop() lists the registered names first; when stop hooks deregister
\* other components (and every stop hook returns) it returns normally, a
\* component that was Started or Paused has its stop hook and _stop called
\* exactly once (in its own turn or when it was deregistered, never again
\* after it was removed), one that was Stopped has neither, and every
\* listed name still registered at the end is Stopped.
C4_StopSkipsDeregistered ==
    [][(lastOp'.op = "stop" /\ StopHooksReturn)
       => /\ status' = "ok"
          /\ Len(snaps') = 1
          /\ Range(snaps'[1]) = DOMAIN components
          /\ \A n \in DOMAIN components :
                LET k == IF components[n].state = Stopped THEN 0 ELSE 1
                IN  /\ Cardinality(PositionsIn(log', "stop", n)) = k
                    /\ Cardinality(PositionsIn(log', "_stop", n)) = k
                    /\ n \in DOMAIN components'
                          => components'[n].state = Stopped]_vars

\* stop() has returned after the stop hook of one component deregistered a
\* component that came later in the key list.
C4_Witness ==
    /\ lastOp.op = "stop"
    /\ status = "ok"
    /\ \E i, j \in 1..Len(snaps[1]) :
          LET a == snaps[1][i]
              b == snaps[1][j]
          IN  /\ i < j
              /\ a \in DOMAIN components
              /\ components[a].stop = Hook("dereg", b)
              /\ Positions("stop", a) # {}
              /\ Positions("_stop", b) # {}
              /\ b \notin DOMAIN components

\* ---- C5 ----------------------------------------------------------------
\* The source state a per-name transition request does not match.
NonMatching(op, c) ==
    \/ op = "start_component" /\ c.state \in {Started, Paused}
    \/ op = "stop_component" /\ c.state = Stopped
    \/ op = "pause_component" /\ c.state \in {Stopped, Paused}
    \/ op = "resume_component" /\ c.state \in {Stopped, Started}

\* C5: a per-name start, stop, pause or resume requested on a registered
\* component (one without declared dependencies, for start) whose state is
\* not the source state of that transition changes neither dictionary (so
\* neither the state nor the timer of any record), calls no hook, makes no
\* transition and raises nothing.
C5_NonMatchingIsNoOp ==
    [][\A n \in DOMAIN components :
          (/\ lastOp'.name = n
           /\ NonMatching(lastOp'.op, components[n])
           /\ n \notin DOMAIN depend)
          => /\ components' = components
             /\ depend' = depend
             /\ log' = <<>>
             /\ status' = "ok"]_vars

\* A start_component on a Paused component has just returned.
C5_Witness ==
    /\ lastOp.op = "start_component"
    /\ lastOp.name \in DOMAIN components
    /\ lastOp.name \notin DOMAIN depend
    /\ components[lastOp.name].state = Paused
    /\ components[lastOp.name].timer = "stopped"
    /\ log = <<>>
    /\ status = "ok"

\* ---- C6 ----------------------------------------------------------------
\* C6: every update hook that update() calls is called on a component that
\* is Started at that moment: a component that was not Started when
\* update() was called has no update hook call, and no update hook call on
\* a component follows a _pause or _stop of that component made earlier in
\* the same update().
C6_UpdateOnlyStarted ==
    [][lastOp'.op = "update"
       => /\ \A i \in 1..Len(log') :
                log'[i].ev = "update" => log'[i].st = Started
          /\ \A n \in DOMAIN components :
                /\ components[n].state # Started
                      => PositionsIn(log', "update", n) = {}
                /\ \A i \in PositionsIn(log', "update", n) :
                      \A j \in 1..(i - 1) :
                          ~(log'[j].name = n
                                /\ log'[j].ev \in {"_pause", "_stop"})]_vars

\* update() has returned after the update hook of one component paused an
\* update-capable component later in the key list, which was then skipped.
C6_Witness ==
    /\ lastOp.op = "update"
    /\ status = "ok"
    /\ \E i, j \in 1..Len(snaps[1]) :
          LET a == snaps[1][i]
              b == snaps[1][j]
          IN  /\ i < j
              /\ Positions("update", a) # {}
              /\ Positions("_pause", b) # {}
              /\ HasUpdate(components[b])
              /\ components[b].state = Paused
              /\ Positions("update", b) = {}

\* ---- C7 ----------------------------------------------------------------
\* C7: every registered record has a running timer exactly when it is
\* Started and has an update method, and it never owns more than one
\* running LoopingCall (none when its handle is not running).
C7_TimerIffStartedAndUpdating ==
    \A n \in DOMAIN components :
        LET c == components[n]
        IN  /\ (c.timer = "running") <=> (c.state = Started /\ HasUpdate(c))
            /\ c.running = IF c.timer = "running" THEN 1 ELSE 0

\* A resume has just re-armed the timer of an update-capable component that
\* had been started and paused.
C7_Witness ==
    /\ lastOp.op = "resume_component"
    /\ log = <<Event("_resume", lastOp.name, Paused, Started)>>
    /\ components[lastOp.name].timer = "running"
    /\ components[lastOp.name].running = 1

\* ---- C8 ----------------------------------------------------------------
LifecycleEdges ==
    {<<Stopped, Started>>, <<Started, Stopped>>, <<Paused, Stopped>>,
     <<Started, Paused>>, <<Paused, Started>>}

\* The edge each underscore method is allowed to take.
EdgesOf(ev) ==
    CASE ev = "_start" -> {<<Stopped, Started>>}
      [] ev = "_stop" -> {<<Started, Stopped>>, <<Paused, Stopped>>}
      [] ev = "_pause" -> {<<Started, Paused>>}
      [] ev = "_resume" -> {<<Paused, Started>>}

RECURSIVE Replay(_, _, _)
\* The state of name after the transitions a log lists for it, starting
\* from state s; "illegal" when a transition is no edge of the table or does
\* not start from the state the record is in.
Replay(lg, name, s) ==
    IF lg = <<>> THEN s
    ELSE LET e == Head(lg)
         IN  IF e.name = name /\ e.ev \in TransitionEvents
             THEN IF e.st = s /\ <<e.st, e.to>> \in EdgesOf(e.ev)
                  THEN Replay(Tail(lg), name, e.to)
                  ELSE "illegal"
             ELSE Replay(Tail(lg), name, s)

\* C8: over every operation, the state of a record that stays registered
\* changes exactly by the transitions the operation performed on it, each an
\* edge of the lifecycle table taken by the method of that edge; a record
\* just constructed is Stopped; every state is one of the three.
C8_OnlyLifecycleEdges ==
    [][\A n \in DOMAIN components' :
          /\ components'[n].state \in {Stopped, Started, Paused}
          /\ IF lastOp'.op = "register" /\ lastOp'.name = n
             THEN components'[n].state = Stopped
             ELSE /\ n \in DOMAIN components
                  /\ Replay(log', n, components[n].state)
                        = components'[n].state]_vars

\* A pause has just taken a Started component to Paused.
C8_Witness ==
    \E i \in 1..Len(log) :
        /\ log[i] = Event("_pause", log[i].name, Started, Paused)
        /\ log[i].name \in DOMAIN components
        /\ components[log[i].name].state = Paused

\* ---- C9 ----------------------------------------------------------------
\* C9 as claimed: whenever resume_component resumed a component, the user
\* start hook of that component was called, its timer is running and it is
\* Started.
C9_ResumeCallsStartHook ==
    \A i \in 1..Len(log) :
        log[i].ev = "_resume"
            => /\ Positions("start", log[i].name) # {}
               /\ components[log[i].name].state = Started

\* C9 as amended: resume_component on a Paused component calls _resume and
\* nothing else (no user start hook); the component becomes Started and, if
\* it has an update method, its timer is running again.
C9_ResumeRearmsWithoutStartHook ==
    [][\A n \in DOMAIN components :
          (/\ lastOp'.op = "resume_component"
           /\ lastOp'.name = n
           /\ components[n].state = Paused)
          => /\ log' = <<Event("_resume", n, Paused, Started)>>
             /\ status' = "ok"
             /\ components'[n].state = Started
             /\ HasUpdate(components[n])
                    => /\ components[n].timer = "stopped"
                       /\ components'[n].timer = "running"]_vars

\* resume_component has just resumed an update-capable component.
C9_Witness ==
    /\ lastOp.op = "resume_component"
    /\ Positions("_resume", lastOp.name) # {}
    /\ HasUpdate(components[lastOp.name])
    /\ components[lastOp.name].state = Started

\* ---- C10 ---------------------------------------------------------------
\* C10 as claimed: deregister of an unregistered name changes nothing and
\* calls nothing; deregister of a registered name calls the stop hook and
\* _stop if the record was Started or Paused, removes the record Stopped
\* with no running timer, and leaves the name in neither dictionary.
C10_DeregisterRemovesBothEntries ==
    [][\A n \in Names :
          (lastOp'.op = "deregister" /\ lastOp'.name = n)
          => IF n \notin DOMAIN components
             THEN /\ components' = components
                  /\ depend' = depend
                  /\ log' = <<>>
             ELSE /\ n \notin DOMAIN components'
                  /\ n \notin DOMAIN depend'
                  /\ \A c \in removed' :
                        c.state = Stopped /\ c.timer # "running"
                  /\ components[n].state # Stopped
                        => log' = <<Event("stop", n, components[n].state,
                                          components[n].state),
                                    Event("_stop", n, components[n].state,
                                          Stopped)>>]_vars

\* ---- C11 ---------------------------------------------------------------
\* The state of name just before position i of a log, from state s0.
StateAt(lg, i, name, s0) == Replay(SubSeq(lg, 1, i - 1), name, s0)

\* C11 as claimed: whenever start or start_component takes a component to
\* Started, each of its declared dependencies is registered and Started at
\* that moment.
C11_DependenciesStartedAtStart ==
    [][lastOp'.op \in {"start", "start_component"}
       => \A i \in 1..Len(log') :
             log'[i].ev = "_start"
                => \A m \in Declared(log'[i].name) :
                      /\ m \in DOMAIN components
                      /\ StateAt(log', i, m, components[m].state)
                            = Started]_vars

\* C11 as amended: whenever start or start_component takes a component to
\* Started, each of its declared dependencies is registered and not Stopped
\* at that moment: it is Started, unless it was Paused when the call began,
\* and then it is still Paused (a Paused component is not started).
C11_DependenciesNotStoppedAtStart ==
    [][lastOp'.op \in {"start", "start_component"}
       => \A i \in 1..Len(log') :
             log'[i].ev = "_start"
                => \A m \in Declared(log'[i].name) :
                      /\ m \in DOMAIN components
                      /\ StateAt(log', i, m, components[m].state)
                            = IF components[m].state = Paused
                              THEN Paused ELSE Started]_vars

\* start_component has just started A, whose dependency B was Paused and
\* still is.
C11_Witness ==
    /\ lastOp = [op |-> "start_component", name |-> "A"]
    /\ "A" \in DOMAIN depend /\ depend["A"] = <<"B">>
    /\ "B" \in DOMAIN components /\ components["B"].state = Paused
    /\ log = <<Event("start", "A", Stopped, Stopped),
               Event("_start", "A", Stopped, Started)>>

\* ---- C12 ---------------------------------------------------------------
\* C12: get, start_component, stop_component, pause_component and
\* resume_component on a name that is not registered (and has no entry in
\* the dependency dictionary) raise KeyError, call nothing and leave both
\* dictionaries, so every record's state and timer, as they were.
C12_UnregisteredNameIsKeyError ==
    [][\A n \in Names :
          (/\ lastOp'.name = n
           /\ lastOp'.op \in {"get", "start_component", "stop_component",
                              "pause_component", "resume_component"}
           /\ n \notin DOMAIN components
           /\ n \notin DOMAIN depend)
          => /\ status' = "KeyError"
             /\ components' = components
             /\ depend' = depend
             /\ log' = <<>>]_vars

\* get on an unregistered name has just failed while another component is
\* Started with its timer running.
C12_Witness ==
    /\ lastOp.op = "get"
    /\ lastOp.name \notin DOMAIN components
    /\ lastOp.name \notin DOMAIN depend
    /\ status = "KeyError"
    /\ \E m \in DOMAIN components : components[m].timer = "running"

\* ---- C13 ---------------------------------------------------------------
\* What C13 and its amendment share: in the log of a shutdown() every stop
\* hook call precedes every shutdown hook call, a component is Stopped when
\* its shutdown hook is called and nothing is stopped or started after the
\* first shutdown hook call; when shutdown() returns normally every
\* component still registered is Stopped with no running timer.
StopPhaseFirst(lg, st, comps) ==
    /\ \A i, j \in 1..Len(lg) :
          lg[j].ev = "shutdown"
             => /\ lg[j].st = Stopped
                /\ lg[i].ev = "stop" => i < j
                /\ lg[i].ev \in TransitionEvents => i < j
    /\ st = "ok"
          => \A n \in DOMAIN comps :
                /\ comps[n].state = Stopped
                /\ comps[n].timer # "running"
                /\ Cardinality(PositionsIn(lg, "shutdown", n)) = 1

FailingVisit(op, ks, f) ==
    CHOOSE i \in 1..Len(ks) :
        /\ f \in (IF op = "start" THEN Reach({ks[i]}) ELSE {ks[i]})
        /\ \A j \in 1..(i - 1) :
              f \notin (IF op = "start" THEN Reach({ks[j]}) ELSE {ks[j]})

\* The names the visits 1..i of a bulk call reach.
Visited(op, ks, i) ==
    IF op = "start" THEN Reach({ks[j] : j \in 1..i}) ELSE {ks[j] : j \in 1..i}

\* C14: when start_component, stop_component, start() or stop() fails with
\* a hook's exception, the last thing done was the call of a raising start
\* or stop hook; the record of that component is as before the call
\* (Stopped and unarmed for a start hook, Started or Paused for a stop
\* hook); every component transitioned earlier in the call keeps the state
\* the transition gave it; every other record is unchanged, and the names
\* after the failing visit of a bulk call that no earlier visit reached
\* have no call at all.
C14_HookFailurePropagates ==
    [][(/\ lastOp'.op \in {"start", "start_component", "stop",
                           "stop_component"}
        /\ status' = "HookFailure")
       => LET last == log'[Len(log')]
              f == last.name
              moved == {log'[i].name : i \in
                          {j \in 1..Len(log') :
                              log'[j].ev \in TransitionEvents}}
          IN /\ last.ev \in {"start", "stop"}
             /\ last.ev = "start" <=> lastOp'.op \in {"start", "start_component"}
             /\ DOMAIN components' = DOMAIN components
             /\ depend' = depend
             /\ components'[f] = components[f]
             /\ last.ev = "start"
                   => /\ components[f].start.kind = "raise"
                      /\ components'[f].state = Stopped
                      /\ components'[f].timer # "running"
             /\ last.ev = "stop"
                   => /\ components[f].stop.kind = "raise"
                      /\ components'[f].state \in {Started, Paused}
                      /\ components'[f].state = Started
                            => components'[f].timer = "running"
             /\ f \notin moved
             /\ \A i \in 1..Len(log') :
                   log'[i].ev \in TransitionEvents
                      => /\ components'[log'[i].name].state = log'[i].to
                         /\ log'[i].to # log'[i].st
             /\ \A n \in DOMAIN components \ moved :
                   components'[n] = components[n]
             /\ lastOp'.op \in {"start", "stop"}
                   => LET ks == snaps'[1]
                          p == FailingVisit(lastOp'.op, ks, f)
                      IN \A i \in (p + 1)..Len(ks) :
                            ks[i] \notin Visited(lastOp'.op, ks, p)
                               => \A j \in 1..Len(log') :
                                     log'[j].name # ks[i]]_vars

\* start() visited A first: it started A's dependency B, A's start hook
\* raised, and C, Stopped and after A in the key list, was not started
\* while B stays Started with its timer running.
C14_Witness ==
    /\ lastOp.op = "start"
    /\ status = "HookFailure"
    /\ snaps = << <<"A", "C", "B">> >>
    /\ log = <<Event("start", "B", Stopped, Stopped),
               Event("_start", "B", Stopped, Started),
               Event("start", "A", Stopped, Stopped)>>
    /\ components["A"].state = Stopped
    /\ components["B"].state = Started /\ components["B"].timer = "running"
    /\ components["C"].state = Stopped
    /\ components["C"].start.kind = "ok"

\* ---- C15 ---------------------------------------------------------------
\* The names reachable from name that lie on a cycle of declared
\* dependencies.
OnCycle(name) == {m \in Reach({name}) : m \in Reach(Declared(m))}

\* No component on a cycle was transitioned by the call that wrote lg.
CycleUntouched(name, lg, comps) ==
    \A m \in OnCycle(name) :
        /\ \A i \in 1..Len(lg) :
              lg[i].name = m => lg[i].ev \notin TransitionEvents
        /\ m \in DOMAIN components => comps[m] = components[m]

\* C15 as claimed: start_component(name) terminates when the dependency
\* graph reachable from name is acyclic; when it contains a cycle the call
\* recurses without bound and transitions no component on the cycle.
C15_CycleRecursesWithoutBound ==
    [][lastOp'.op = "start_component"
       => /\ OnCycle(lastOp'.name) = {} => status' # "RecursionError"
          /\ OnCycle(lastOp'.name) # {}
                => /\ status' = "RecursionError"
                   /\ CycleUntouched(lastOp'.name, log', components')]_vars

\* C15 as amended: start_component(name) terminates when the dependency
\* graph reachable from name is acyclic; when it contains a cycle the call
\* never returns normally and transitions no component on the cycle: it
\* recurses without bound when every reachable name is registered, and
\* otherwise either recurses without bound or fails with a lookup error.
C15_CycleNeverStarts ==
    [][lastOp'.op = "start_component"
       => /\ OnCycle(lastOp'.name) = {} => status' \in {"ok", "KeyError"}
          /\ OnCycle(lastOp'.name) # {}
                => /\ status' \in {"RecursionError", "KeyError"}
                   /\ Reach({lastOp'.name}) \subseteq DOMAIN components
                         => status' = "RecursionError"
                   /\ CycleUntouched(lastOp'.name, log', components')]_vars

\* start_component("A") on the cycle A -> B -> A, both registered and
\* Stopped, has exhausted the recursion without calling anything.
C15_Witness ==
    /\ lastOp = [op |-> "start_component", name |-> "A"]
    /\ status = "RecursionError"
    /\ DOMAIN depend = {"A", "B"}
    /\ depend["A"] = <<"B">> /\ depend["B"] = <<"A">>
    /\ components["A"].state = Stopped /\ components["B"].state = Stopped
    /\ log = <<>>

\* ---- C16 ---------------------------------------------------------------
\* C16 as claimed: once a component has been constructed under a name, the
\* dependency mapping has an entry for the name exactly when that
\* construction passed a dependency list.
C16_DependEntryIffDeclared ==
    [][\A r \in CoreRegs :
          Construct(r.name, r.cls, r.dep)
             => (r.name \in DOMAIN depend' <=> r.dep # None)]_vars

\* ---- C17 ---------------------------------------------------------------
\* C17: when update() visits a Started component whose update hook
\* deregisters a component later in the key list, and every other visit
\* before that later name succeeds, update() fails with a lookup error at
\* the removed name: the name is gone, neither it nor any name after it has
\* its update hook called, and the names after it are left as they were.
C17_UpdateFailsOnRemovedName ==
    [][lastOp'.op = "update"
       => LET ks == snaps'[1]
          IN \A i, j \in 1..Len(ks) :
                (/\ i < j
                 /\ components[ks[i]].state = Started
                 /\ components[ks[i]].update = Hook("dereg", ks[j])
                 /\ \A k \in 1..(j - 1) :
                       (k # i /\ components[ks[k]].state = Started)
                          => components[ks[k]].update.kind = "ok")
                => /\ status' = "KeyError"
                   /\ ks[j] \notin DOMAIN components'
                   /\ \A k \in 1..(j - 1) :
                         components[ks[k]].state = Started
                            => Cardinality(
                                   PositionsIn(log', "update", ks[k])) = 1
                   /\ \A k \in j..Len(ks) :
                         PositionsIn(log', "update", ks[k]) = {}
                   /\ \A k \in (j + 1)..Len(ks) :
                         components'[ks[k]] = components[ks[k]]]_vars

\* update() visited A, whose update hook deregistered the Started B, failed
\* at B and never updated the Started, update-capable C after it.
C17_Witness ==
    /\ lastOp.op = "update"
    /\ status = "KeyError"
    /\ snaps = << <<"A", "B", "C">> >>
    /\ DOMAIN components = {"A", "C"}
    /\ components["A"].update = Hook("dereg", "B")
    /\ components["C"].state = Started /\ HasUpdate(components["C"])
    /\ log = <<Event("update", "A", Started, Started),
               Event("stop", "B", Started, Started),
               Event("_stop", "B", Started, Stopped)>>

\* ---- C18 ---------------------------------------------------------------
\* The start and stop hook calls made on name, in call order.
HookCalls(lg, name) ==
    LET OnName(e) == e.name = name /\ e.ev \in {"start", "stop"}
    IN SelectSeq(lg, OnName)

\* Start hook calls minus stop hook calls of a record, as its state tells.
Balance(c) == IF c.state = Stopped THEN 0 ELSE 1

\* C18: in every start, stop, pause or resume call, bulk or by name, the
\* start and stop hook calls made on a component continue the alternation
\* its state stands for: the first is a start hook exactly when it was
\* Stopped, they alternate from there, and the state it is left in is
\* Stopped exactly when the calls are balanced again; pause and resume
\* call neither hook.  A newly constructed record is Stopped with no call
\* made, so over any sequence of these calls the hooks alternate beginning
\* with start.
C18_StartStopHooksAlternate ==
    [][/\ lastOp'.op = "register"
          => /\ Balance(components'[lastOp'.name]) = 0
             /\ log' = <<>>
       /\ lastOp'.op \in {"pause", "pause_component", "resume",
                          "resume_component"}
          => \A i \in 1..Len(log') : log'[i].ev \notin {"start", "stop"}
       /\ lastOp'.op \in {"start", "start_component", "stop", "stop_component",
                          "pause", "pause_component", "resume",
                          "resume_component"}
          => /\ DOMAIN components' = DOMAIN components
             /\ \A n \in DOMAIN components :
                   LET H == HookCalls(log', n)
                   IN /\ \A k \in 1..Len(H) :
                            H[k].ev
                              = IF (Balance(components[n]) + k) % 2 = 1
                                THEN "start" ELSE "stop"
                      /\ Balance(components'[n])
                            = (Balance(components[n]) + Len(H)) % 2]_vars

\* A component that was started and then paused has just been stopped: its
\* stop hook was called once, from Paused.
C18_Witness ==
    /\ lastOp = [op |-> "stop_component", name |-> "A"]
    /\ log = <<Event("stop", "A", Paused, Paused),
               Event("_stop", "A", Paused, Stopped)>>
    /\ components["A"].timer = "stopped"

\* ---- C19 ---------------------------------------------------------------
\* C19 as claimed: a record that left the name mapping in the last call,
\* by deregister or by a construction under the same name, is Stopped and
\* has no running timer.
C19_RemovedRecordIsStopped ==
    \A c \in removed :
        /\ c.state = Stopped
        /\ c.timer # "running"
        /\ c.running = 0

\* ---- C20 ---------------------------------------------------------------
\* C20 as claimed: update() does not fail on a Started component without
\* an update hook; when the update hooks of the Started components just
\* return, update() returns normally having called the update hook of
\* every Started, update-capable component exactly once.
C20_UpdateSkipsNonUpdating ==
    [][lastOp'.op = "update"
       => /\ status' # "AttributeError"
          /\ (\A n \in DOMAIN components :
                 components[n].state = Started
                    => components[n].update.kind \in {"ok", "absent"})
             => /\ status' = "ok"
                /\ \A n \in DOMAIN components :
                      (components[n].state = Started
                       /\ HasUpdate(components[n]))
                         => Cardinality(PositionsIn(log', "update", n)) = 1]_vars

====
